---- MODULE Spec2Model ----
(***************************************************************************)
(* Model of fluent/migrate/transforms.py: the migration Transforms and     *)
(* the pattern-building utilities of Transform.                            *)
(*                                                                         *)
(* Text is a sequence of one-character strings.  FTL nodes are records     *)
(* tagged by "type".  A TextElement carries an object identity "id": <<>>  *)
(* is an object built during evaluation, a non-empty id is the position of *)
(* an object in the caller's tree; the in-place merge of                   *)
(* normalize_text_content writes through that identity.                    *)
(***************************************************************************)
EXTENDS Integers, Sequences, FiniteSets

VARIABLES
    node,       \* the caller's tree: the node about to be called or evaluated
    ctx,        \* the MergeContext: legacy sources and plural categories
    calls,      \* the operations applied to node so far, oldest first
    results,    \* what each of them returned or raised
    evaluated   \* the replacement keys the last call passed to evaluate

vars == <<node, ctx, calls, results, evaluated>>

(* ------------------------------ bounds -------------------------------- *)

MaxLen == 1
MaxElems == 2
MaxChildren == 1
MaxCalls == 2
MaxText == 3
MaxKeys == 2
MaxPluralLen == 3
MaxCategories == 3

Chars == {"a", " "}
Whitespace == {" "}

Str(n) == UNION {[1..k -> Chars] : k \in 0..n}

(* ------------------------------ FTL nodes ----------------------------- *)

Num == <<"n", "u", "m">>

TextElement(value) == [type |-> "TextElement", value |-> value, id |-> <<>>]

OwnedTextElement(value, id) == [type |-> "TextElement", value |-> value, id |-> id]

StringExpression(value) == [type |-> "StringExpression", value |-> value]

ExternalArgument(name) == [type |-> "ExternalArgument", name |-> name]

Placeable(expression) == [type |-> "Placeable", expression |-> expression]

Pattern(elements) == [type |-> "Pattern", elements |-> elements]

Identifier(name) == [type |-> "Identifier", name |-> name]

RuntimeError == [type |-> "Error", kind |-> "RuntimeError"]

IsPatternElement(element) == element.type \in {"TextElement", "Placeable"}

IsExpression(element) ==
    element.type \in {"StringExpression", "ExternalArgument", "SelectExpression"}

(* ---------------------- Transform.flatten_elements -------------------- *)

RECURSIVE flatten_elements(_)
flatten_elements(elements) ==
    IF elements = <<>> THEN <<>>
    ELSE LET element == Head(elements)
             rest == flatten_elements(Tail(elements))
         IN  IF element.type = "Pattern" THEN element.elements \o rest
             ELSE IF IsPatternElement(element) THEN <<element>> \o rest
             ELSE IF IsExpression(element) THEN <<Placeable(element)>> \o rest
             ELSE <<RuntimeError>> \o rest

(* ------------------- Transform.normalize_text_content ----------------- *)

get_text(element) ==
    IF element.type = "TextElement"
    THEN [none |-> FALSE, text |-> element.value]
    ELSE IF element.type = "Placeable" /\ element.expression.type = "StringExpression"
    THEN [none |-> FALSE, text |-> element.expression.value]
    ELSE [none |-> TRUE, text |-> <<>>]

\* The object appended for a textual element: a new TextElement.
normalized_element_aliased(current, current_text) ==
    IF current.type = "TextElement" THEN current ELSE TextElement(current_text)

normalized_element(current, current_text) == TextElement(current_text)

\* Whether a textual element is merged into the previous element of joined.
merges_never(previous, current) == FALSE

merges_text_elements_only(previous, current) ==
    previous.type = "TextElement" /\ current.type = "TextElement"

merges(previous, current) == previous.type = "TextElement"

\* One iteration of the loop over elements.
normalize_step(joined, current) ==
    LET current_text == get_text(current)
        n == Len(joined)
    IN  IF current_text.none THEN Append(joined, current)
        ELSE IF n > 0 /\ merges(joined[n], current)
        THEN [joined EXCEPT ![n].value = @ \o current_text.text]
        ELSE IF Len(current_text.text) > 0
        THEN Append(joined, normalized_element(current, current_text.text))
        ELSE joined

\* The loop; flatten_elements is a generator, so its RuntimeError ends the
\* loop at the offending element, after the elements before it were joined.
RECURSIVE normalize_from(_, _)
normalize_from(joined, elements) ==
    IF elements = <<>> THEN joined
    ELSE IF Head(elements).type = "Error" THEN joined
    ELSE normalize_from(normalize_step(joined, Head(elements)), Tail(elements))

normalize_text_content(elements) == normalize_from(<<>>, elements)

(* --------------------- Transform.preserve_whitespace ------------------ *)

\* re.match(r'^\s*$', value)
matches_blank(value) == \A i \in 1..Len(value) : value[i] \in Whitespace

preserve_whitespace_trimmed(elements) ==
    IF Len(elements) = 0 THEN <<Placeable(StringExpression(<<>>))>>
    ELSE IF Len(elements) = 1
            /\ elements[1].type = "TextElement"
            /\ matches_blank(elements[1].value)
    THEN <<Placeable(StringExpression(<<>>))>>
    ELSE elements

preserve_whitespace(elements) ==
    IF Len(elements) = 0 THEN <<Placeable(StringExpression(<<>>))>>
    ELSE IF Len(elements) = 1
            /\ elements[1].type = "TextElement"
            /\ matches_blank(elements[1].value)
    THEN <<Placeable(StringExpression(elements[1].value))>>
    ELSE elements

(* -------------------------- Transform.pattern_of ---------------------- *)

HasError(elements) == \E i \in 1..Len(elements) : elements[i].type = "Error"

pattern_of(elements) ==
    LET flat == flatten_elements(elements)
    IN  IF HasError(flat) THEN RuntimeError
        ELSE Pattern(preserve_whitespace(normalize_text_content(flat)))

(* ------------------------------ context ------------------------------- *)

NotFound == [found |-> FALSE, text |-> <<>>]

Found(text) == [found |-> TRUE, text |-> text]

LookupError == [type |-> "Error", kind |-> "LookupError"]

\* ctx.get_source(path, key)
get_source(context, path, key) == context.sources[<<path, key>>]

(* ---------------------------- str methods --------------------------- *)

\* The start offsets (from 0) at which key occurs in text.
occurrences(text, key) ==
    {i \in 0..(Len(text) - Len(key)) : SubSeq(text, i + 1, i + Len(key)) = key}

\* key in text
contains(text, key) == occurrences(text, key) # {}

\* text.find(key)
find(text, key) ==
    IF contains(text, key)
    THEN CHOOSE i \in occurrences(text, key) :
             \A j \in occurrences(text, key) : i <= j
    ELSE -1

\* text.partition(key), for a non-empty key
partition(text, key) ==
    IF contains(text, key)
    THEN LET i == find(text, key)
         IN  [before |-> SubSeq(text, 1, i),
              key    |-> key,
              tail   |-> SubSeq(text, i + Len(key) + 1, Len(text))]
    ELSE [before |-> text, key |-> <<>>, tail |-> <<>>]

(* -------------------------------- errors ------------------------------ *)

KeyError == [type |-> "Error", kind |-> "KeyError"]

ValueError == [type |-> "Error", kind |-> "ValueError"]

IsError(value) == value.type = "Error"

(* --------------------------- Source and COPY -------------------------- *)

COPY(path, key) == [type |-> "COPY", path |-> path, key |-> key]

\* Source.__call__
Source_call(context, self) ==
    LET source == get_source(context, self.path, self.key)
    IN  IF source.found THEN TextElement(source.text) ELSE LookupError

\* COPY.__call__
COPY_call(context, self) ==
    LET element == Source_call(context, self)
    IN  IF IsError(element) THEN element ELSE pattern_of(<<element>>)

(* ------------------- objects of the caller after a call --------------- *)

\* The caller's object `element` after the loop of normalize_text_content
\* has run: `previous.value += current_text` writes to the object joined holds.
after_write(element, joined) ==
    IF element.type = "TextElement" /\ element.id # <<>>
       /\ \E k \in 1..Len(joined) :
             joined[k].type = "TextElement" /\ joined[k].id = element.id
    THEN LET k == CHOOSE k \in 1..Len(joined) :
                    joined[k].type = "TextElement" /\ joined[k].id = element.id
         IN  [element EXCEPT !.value = joined[k].value]
    ELSE element

elements_after(elements, joined) ==
    [i \in 1..Len(elements) |->
        IF elements[i].type = "Pattern"
        THEN [elements[i] EXCEPT !.elements =
                 [j \in 1..Len(elements[i].elements) |->
                     after_write(elements[i].elements[j], joined)]]
        ELSE after_write(elements[i], joined)]

(* ------------------------------- CONCAT ------------------------------- *)

CONCAT(elements) == [type |-> "CONCAT", elements |-> elements]

\* CONCAT.__call__
CONCAT_call(self) == pattern_of(self.elements)

CONCAT_after(self) ==
    [self EXCEPT !.elements =
        elements_after(self.elements,
                       normalize_text_content(flatten_elements(self.elements)))]

(* ----------------------------- transforms --------------------------- *)

REPLACE_IN_TEXT(element, replacements) ==
    [type |-> "REPLACE_IN_TEXT", element |-> element, replacements |-> replacements]

REPLACE(path, key, replacements) ==
    [type |-> "REPLACE", path |-> path, key |-> key, replacements |-> replacements]

PLURALS(path, key, selector, foreach) ==
    [type |-> "PLURALS", path |-> path, key |-> key,
     selector |-> selector, foreach |-> foreach]

\* A dict is the sequence of its entries [key, value] in iteration order.
Entry(key, value) == [key |-> key, value |-> value]

has_key(dict, key) == \E i \in 1..Len(dict) : dict[i].key = key

getitem(dict, key) == dict[CHOOSE i \in 1..Len(dict) : dict[i].key = key].value

\* The first error among the values of a sequence of nodes, in order.
FirstError(values) ==
    values[CHOOSE i \in 1..Len(values) :
               IsError(values[i]) /\ \A j \in 1..(i - 1) : ~IsError(values[j])]

(* ------------------------- evaluate, on leaves ------------------------ *)

\* traverse on an FTL node that holds no Transform: a new, equal node.
new_element(element) ==
    IF element.type = "TextElement" THEN TextElement(element.value) ELSE element

new_node(n) ==
    IF n.type = "Pattern"
    THEN Pattern([i \in 1..Len(n.elements) |-> new_element(n.elements[i])])
    ELSE new_element(n)

\* evaluate(ctx, node) for a node without Transform children: an FTL node,
\* or a COPY.
evaluate_leaf(context, n) ==
    IF n.type = "COPY" THEN COPY_call(context, n) ELSE new_node(n)

(* ------------------------ REPLACE_IN_TEXT.__call__ -------------------- *)

replaced_always(text, entry) == TRUE

\* if key in self.element.value
replaced(text, entry) == contains(text, entry.key)

\* The entries of self.replacements that the comprehension keeps.
present_replacements(self) ==
    SelectSeq(self.replacements, LAMBDA entry : replaced(self.element.value, entry))

keys_unordered(text, keys) == keys

\* sorted(keys, cmp) with cmp(x, y) = value.find(x) - value.find(y): stable.
RECURSIVE keys_in_order(_, _)
keys_in_order(text, keys) ==
    IF keys = <<>> THEN <<>>
    ELSE LET n == Len(keys)
             front == keys_in_order(text, SubSeq(keys, 1, n - 1))
             key == keys[n]
             p == Cardinality({i \in 1..Len(front) :
                                   find(text, front[i]) - find(text, key) <= 0})
         IN  SubSeq(front, 1, p) \o <<key>> \o SubSeq(front, p + 1, Len(front))

\* The for loop over keys_in_order and the tail appended after it; an
\* exception ends the list with its Error.  `key` is rebound by partition.
RECURSIVE replace_walk(_, _, _, _)
replace_walk(keys, tail, elements, replacements) ==
    IF keys = <<>> THEN Append(elements, TextElement(tail))
    ELSE IF Head(keys) = <<>> THEN Append(elements, ValueError)
    ELSE LET parts == partition(tail, Head(keys))
             before == Append(elements, TextElement(parts.before))
         IN  IF ~has_key(replacements, parts.key) THEN Append(before, KeyError)
             ELSE replace_walk(Tail(keys), parts.tail,
                               Append(before, getitem(replacements, parts.key)),
                               replacements)

\* The dict `replacements`: the kept entries, each value evaluated.
evaluated_replacements(context, self) ==
    LET present == present_replacements(self)
    IN  [i \in 1..Len(present) |->
            Entry(present[i].key, evaluate_leaf(context, present[i].value))]

\* The list `elements` handed to pattern_of.
REPLACE_IN_TEXT_elements(context, self) ==
    LET replacements == evaluated_replacements(context, self)
        keys == [i \in 1..Len(replacements) |-> replacements[i].key]
    IN  replace_walk(keys_in_order(self.element.value, keys),
                     self.element.value, <<>>, replacements)

REPLACE_IN_TEXT_call(context, self) ==
    LET replacements == evaluated_replacements(context, self)
        values == [i \in 1..Len(replacements) |-> replacements[i].value]
        elements == REPLACE_IN_TEXT_elements(context, self)
    IN  IF HasError(values) THEN FirstError(values)
        ELSE IF HasError(elements) THEN FirstError(elements)
        ELSE pattern_of(elements)

\* The objects of a REPLACE_IN_TEXT after its call: the list handed to
\* pattern_of holds new TextElements and the evaluated replacements.
REPLACE_IN_TEXT_after(context, self) ==
    LET joined == normalize_text_content(
                      flatten_elements(REPLACE_IN_TEXT_elements(context, self)))
    IN  IF IsError(REPLACE_IN_TEXT_call(context, self)) THEN self
        ELSE [self EXCEPT !.element = after_write(@, joined),
                          !.replacements =
                              [i \in 1..Len(self.replacements) |->
                                  [self.replacements[i] EXCEPT
                                      !.value = after_write(@, joined)]]]

\* The keys whose replacement node the comprehension passed to evaluate.
REPLACE_IN_TEXT_evaluated(context, self) ==
    LET present == present_replacements(self)
    IN  {present[i].key : i \in
            {i \in 1..Len(present) :
                \A j \in 1..(i - 1) : ~IsError(evaluate_leaf(context, present[j].value))}}

(* ---------------------------- REPLACE.__call__ ------------------------ *)

REPLACE_call(context, self) ==
    LET element == Source_call(context, self)
    IN  IF IsError(element) THEN element
        ELSE REPLACE_IN_TEXT_call(context,
                                  REPLACE_IN_TEXT(element, self.replacements))

REPLACE_evaluated(context, self) ==
    LET element == Source_call(context, self)
    IN  IF IsError(element) THEN {}
        ELSE REPLACE_IN_TEXT_evaluated(context,
                                       REPLACE_IN_TEXT(element, self.replacements))

(* ---------------------------- PLURALS.__call__ ------------------------ *)

DEFAULT_ORDER == <<"zero", "one", "two", "few", "many", "other">>

\* DEFAULT_ORDER.index(key)
index(key) == CHOOSE i \in 1..Len(DEFAULT_ORDER) : DEFAULT_ORDER[i] = key

\* text.split(sep), sep one character
RECURSIVE split(_, _)
split(text, sep) ==
    IF ~contains(text, <<sep>>) THEN <<text>>
    ELSE LET i == find(text, <<sep>>)
         IN  <<SubSeq(text, 1, i)>> \o split(SubSeq(text, i + 2, Len(text)), sep)

\* The foreach function applied to a variant.  "pattern_of" is the default,
\* Transform.pattern_of; "replace_in_text" is
\* lambda text: REPLACE_IN_TEXT(text, {'#': EXTERNAL_ARGUMENT('num')}).
apply_foreach(foreach, variant) ==
    IF foreach = "pattern_of" THEN pattern_of(<<variant>>)
    ELSE REPLACE_IN_TEXT(variant, <<Entry(<<"#">>, ExternalArgument(Num))>>)

default_key_first(keys) ==
    DEFAULT_ORDER[CHOOSE i \in 1..Len(DEFAULT_ORDER) :
        /\ \E k \in 1..Len(keys) : keys[k] = DEFAULT_ORDER[i]
        /\ \A j \in 1..(i - 1) :
              ~\E k \in 1..Len(keys) : keys[k] = DEFAULT_ORDER[j]]

\* [key for key in reversed(DEFAULT_ORDER) if key in keys][0]
default_key(keys) ==
    DEFAULT_ORDER[CHOOSE i \in 1..Len(DEFAULT_ORDER) :
        /\ \E k \in 1..Len(keys) : keys[k] = DEFAULT_ORDER[i]
        /\ \A j \in (i + 1)..Len(DEFAULT_ORDER) :
              ~\E k \in 1..Len(keys) : keys[k] = DEFAULT_ORDER[j]]

\* zip(keys, variants)
zip(keys, variants) ==
    [i \in 1..(IF Len(keys) <= Len(variants) THEN Len(keys) ELSE Len(variants)) |->
        <<keys[i], variants[i]>>]

\* keys_and_variants.sort(key=lambda (k, v): DEFAULT_ORDER.index(k)): stable.
RECURSIVE sort_by_index(_)
sort_by_index(pairs) ==
    IF pairs = <<>> THEN <<>>
    ELSE LET n == Len(pairs)
             front == sort_by_index(SubSeq(pairs, 1, n - 1))
             p == Cardinality({i \in 1..Len(front) :
                                   index(front[i][1]) <= index(pairs[n][1])})
         IN  SubSeq(front, 1, p) \o <<pairs[n]>> \o SubSeq(front, p + 1, Len(front))

keys_and_variants_unsorted(keys, variants) ==
    LET pairs == zip(keys, variants)
        last == pairs[Len(pairs)]
    IN  IF last[1] # default_key(keys)
        THEN Append(pairs, <<default_key(keys), last[2]>>)
        ELSE pairs

\* zip, sort, and the default variant appended when the last key is not it.
keys_and_variants(keys, variants) ==
    LET pairs == sort_by_index(zip(keys, variants))
        last == pairs[Len(pairs)]
    IN  IF last[1] # default_key(keys)
        THEN Append(pairs, <<default_key(keys), last[2]>>)
        ELSE pairs

VariantName(name) == [type |-> "VariantName", name |-> name]

Variant(key, value, default) ==
    [type |-> "Variant", key |-> key, value |-> value, default |-> default]

SelectExpression(expression, variants) ==
    [type |-> "SelectExpression", expression |-> expression, variants |-> variants]

single_variant_one_category(keys, variants) == Len(keys) = 1

\* The special case of one plural category or one legacy variant.
single_variant(keys, variants) == Len(keys) = 1 \/ Len(variants) = 1

\* evaluate(ctx, self.foreach(variant)): the node foreach returns is a Pattern
\* or a REPLACE_IN_TEXT of the variant.
evaluate_foreach(context, self, variant) ==
    LET built == apply_foreach(self.foreach, variant)
    IN  IF built.type = "REPLACE_IN_TEXT"
        THEN REPLACE_IN_TEXT_call(context, [built EXCEPT !.element = new_node(@)])
        ELSE new_node(built)

createVariant(context, self, key, variant, default) ==
    Variant(VariantName(key), evaluate_foreach(context, self, variant), key = default)

PLURALS_call(context, self) ==
    LET element == Source_call(context, self)
    IN  IF IsError(element) THEN element
        ELSE LET selector == evaluate_leaf(context, self.selector)
                 keys == context.plural_categories
                 parts == split(element.value, ";")
                 variants == [i \in 1..Len(parts) |-> TextElement(parts[i])]
             IN  IF IsError(selector) THEN selector
                 ELSE IF single_variant(keys, variants)
                 THEN evaluate_foreach(context, self, variants[1])
                 ELSE LET pairs == keys_and_variants(keys, variants)
                          created == [i \in 1..Len(pairs) |->
                                         createVariant(context, self, pairs[i][1],
                                                       pairs[i][2], default_key(keys))]
                          values == [i \in 1..Len(pairs) |-> created[i].value]
                      IN  IF HasError(values) THEN FirstError(values)
                          ELSE Pattern(<<Placeable(SelectExpression(selector, created))>>)

(* ------------------------------- evaluate ----------------------------- *)

\* eval_node(subnode) for a subnode whose children traverse has rebuilt
eval_node(context, subnode) ==
    IF subnode.type = "COPY" THEN COPY_call(context, subnode)
    ELSE IF subnode.type = "CONCAT" THEN CONCAT_call(subnode)
    ELSE IF subnode.type = "REPLACE_IN_TEXT" THEN REPLACE_IN_TEXT_call(context, subnode)
    ELSE IF subnode.type = "REPLACE" THEN REPLACE_call(context, subnode)
    ELSE IF subnode.type = "PLURALS" THEN PLURALS_call(context, subnode)
    ELSE subnode

\* The node traverse rebuilds from n, children first, eval_node applied to
\* each; the children are leaves, dicts and functions are kept as they are.
rebuilt(context, n) ==
    IF n.type \in {"Pattern", "CONCAT"}
    THEN LET elements == [i \in 1..Len(n.elements) |->
                             evaluate_leaf(context, n.elements[i])]
         IN  IF HasError(elements) THEN FirstError(elements)
             ELSE [n EXCEPT !.elements = elements]
    ELSE IF n.type = "REPLACE_IN_TEXT"
    THEN [n EXCEPT !.element = evaluate_leaf(context, @)]
    ELSE IF n.type = "PLURALS"
    THEN [n EXCEPT !.selector = evaluate_leaf(context, @)]
    ELSE n

\* evaluate(ctx, node) = node.traverse(eval_node)
evaluate(context, n) ==
    LET subnode == rebuilt(context, n)
    IN  IF IsError(subnode) THEN subnode ELSE eval_node(context, subnode)

(* --------------------- inputs of the pattern utilities ---------------- *)

SeqUpTo(S, n) == UNION {[1..k -> S] : k \in 0..n}

PatternElementInputs ==
    {TextElement(v) : v \in Str(MaxLen)}
    \cup {Placeable(StringExpression(v)) : v \in Str(MaxLen)}
    \cup {Placeable(ExternalArgument(Num))}

ChildInputs ==
    {TextElement(<<>>), TextElement(<<"a">>),
     Placeable(StringExpression(<<" ">>)), Placeable(ExternalArgument(Num))}

ElementInputs ==
    PatternElementInputs
    \cup {Pattern(children) : children \in SeqUpTo(ChildInputs, MaxChildren)}
    \cup {ExternalArgument(Num), StringExpression(<<" ">>), Identifier(Num)}

\* The caller's objects: every TextElement is an object of its own.
Owned(element, id) ==
    IF element.type = "TextElement" THEN OwnedTextElement(element.value, id)
    ELSE element

OwnedElements(elements) ==
    [i \in 1..Len(elements) |->
        IF elements[i].type = "Pattern"
        THEN Pattern([j \in 1..Len(elements[i].elements) |->
                         Owned(elements[i].elements[j], <<i, j>>)])
        ELSE Owned(elements[i], <<i>>)]

ElementList(elements) == [type |-> "list", elements |-> elements]

NoContext == [sources |-> <<>>, plural_categories |-> <<"other">>]

InitPattern ==
    /\ node \in {CONCAT(OwnedElements(elements)) :
                    elements \in SeqUpTo(ElementInputs, MaxElems)}
               \cup {ElementList(OwnedElements(elements)) :
                    elements \in SeqUpTo(PatternElementInputs, MaxElems)}
    /\ ctx = NoContext
    /\ calls = <<>>
    /\ results = <<>>
    /\ evaluated = {}

(* ------------------------------ actions ------------------------------- *)

\* CONCAT(*elements)(ctx)
CallCONCAT ==
    /\ node.type = "CONCAT"
    /\ Len(results) < MaxCalls
    /\ calls' = Append(calls, "call")
    /\ results' = Append(results, CONCAT_call(node))
    /\ node' = CONCAT_after(node)
    /\ UNCHANGED <<ctx, evaluated>>

\* Transform.normalize_text_content(elements), then applied to its own output
NormalizeTextContent ==
    /\ node.type = "list"
    /\ Len(results) < MaxCalls
    /\ LET elements == IF results = <<>> THEN node.elements
                                        ELSE results[Len(results)]
           joined == normalize_text_content(elements)
       IN  /\ calls' = Append(calls, "normalize_text_content")
           /\ results' = Append(results, joined)
           /\ node' = [node EXCEPT !.elements = elements_after(@, joined)]
    /\ UNCHANGED <<ctx, evaluated>>

NextPattern == CallCONCAT \/ NormalizeTextContent

SpecPattern == InitPattern /\ [][NextPattern]_vars

(* ------------------------ REPLACE_IN_TEXT: inputs --------------------- *)

\* The placeholder keys: every text of at most two characters, '' included.
Keys == UNION {[1..k -> Chars] : k \in 0..2}

\* Dicts of at most n entries, in every iteration order.  A key is mapped to
\* "expression", an expression that is no text and is named after the key, or
\* to "copy", the COPY of another legacy string.
RECURSIVE Dicts(_)
Dicts(n) ==
    IF n = 0 THEN {<<>>}
    ELSE LET smaller == Dicts(n - 1)
         IN  smaller \cup
             {Append(dict, Entry(key, value)) :
                 dict \in {d \in smaller : Len(d) = n - 1},
                 key \in Keys, value \in {"expression", "copy"}}

DistinctKeys(dict) ==
    \A i, j \in 1..Len(dict) : dict[i].key = dict[j].key => i = j

ReplacementDict(dict) ==
    [i \in 1..Len(dict) |->
        Entry(dict[i].key,
              IF dict[i].value = "expression" THEN ExternalArgument(dict[i].key)
              ELSE COPY("file.dtd", "repl"))]

ReplaceContext(source) ==
    [sources |-> [id \in {<<"file.dtd", "repl">>} |-> source],
     plural_categories |-> <<"other">>]

InitReplace ==
    /\ node \in {REPLACE_IN_TEXT(OwnedTextElement(text, <<1>>), ReplacementDict(dict)) :
                    text \in Str(MaxText),
                    dict \in {d \in Dicts(MaxKeys) : DistinctKeys(d)}}
    /\ ctx \in {ReplaceContext(source) : source \in {Found(<<"a">>), NotFound}}
    /\ calls = <<>>
    /\ results = <<>>
    /\ evaluated = {}

\* REPLACE_IN_TEXT(element, replacements)(ctx)
CallREPLACE_IN_TEXT ==
    /\ node.type = "REPLACE_IN_TEXT"
    /\ results = <<>>
    /\ calls' = <<"call">>
    /\ results' = <<REPLACE_IN_TEXT_call(ctx, node)>>
    /\ evaluated' = REPLACE_IN_TEXT_evaluated(ctx, node)
    /\ node' = REPLACE_IN_TEXT_after(ctx, node)
    /\ UNCHANGED ctx

NextReplace == CallREPLACE_IN_TEXT

SpecReplace == InitReplace /\ [][NextReplace]_vars

(* ---------------------------- PLURALS: inputs ------------------------- *)

PluralChars == {"a", "#", ";"}

PluralTexts(n) == UNION {[1..k -> PluralChars] : k \in 0..n}

CategoryNames == {DEFAULT_ORDER[i] : i \in 1..Len(DEFAULT_ORDER)}

\* ctx.plural_categories: distinct CLDR names, at least one, in any order.
PluralCategories(n) ==
    {keys \in UNION {[1..k -> CategoryNames] : k \in 1..n} :
        \A i, j \in 1..Len(keys) : keys[i] = keys[j] => i = j}

PluralContext(source, keys) ==
    [sources |-> [id \in {<<"file.dtd", "legacy">>, <<"file.dtd", "repl">>} |->
                     IF id[2] = "legacy" THEN source ELSE Found(<<"a">>)],
     plural_categories |-> keys]

InitPlurals ==
    /\ node \in {PLURALS("file.dtd", "legacy", ExternalArgument(Num), foreach) :
                    foreach \in {"pattern_of", "replace_in_text"}}
    /\ ctx \in {PluralContext(source, keys) :
                   source \in {Found(text) : text \in PluralTexts(MaxPluralLen)}
                              \cup {NotFound},
                   keys \in PluralCategories(MaxCategories)}
    /\ calls = <<>>
    /\ results = <<>>
    /\ evaluated = {}

\* PLURALS(path, key, selector, foreach)(ctx)
CallPLURALS ==
    /\ node.type = "PLURALS"
    /\ results = <<>>
    /\ calls' = <<"call">>
    /\ results' = <<PLURALS_call(ctx, node)>>
    /\ UNCHANGED <<node, ctx, evaluated>>

NextPlurals == CallPLURALS

SpecPlurals == InitPlurals /\ [][NextPlurals]_vars

(* ---------------------------- evaluate: inputs ------------------------ *)

EvaluateElements ==
    {TextElement(<<>>), TextElement(<<"a">>), TextElement(<<" ">>),
     Placeable(StringExpression(<<"a">>)), Placeable(ExternalArgument(Num)),
     Pattern(<<TextElement(<<"a">>), TextElement(<<"#">>)>>),
     COPY("file.dtd", "legacy")}

EvaluateDicts ==
    {<<>>,
     <<Entry(<<"#">>, ExternalArgument(Num))>>,
     <<Entry(<<"#">>, OwnedTextElement(<<"a">>, <<2>>)),
       Entry(<<"a">>, COPY("file.dtd", "repl"))>>}

EvaluateNodes ==
    {CONCAT(OwnedElements(elements)) : elements \in SeqUpTo(EvaluateElements, 2)}
    \cup {COPY("file.dtd", "legacy")}
    \cup {REPLACE_IN_TEXT(OwnedTextElement(text, <<1>>), dict) :
              text \in PluralTexts(2), dict \in EvaluateDicts}
    \cup {REPLACE("file.dtd", "legacy", dict) : dict \in EvaluateDicts}
    \cup {PLURALS("file.dtd", "legacy", ExternalArgument(Num), foreach) :
              foreach \in {"pattern_of", "replace_in_text"}}

InitEvaluate ==
    /\ node \in EvaluateNodes
    /\ ctx \in {PluralContext(source, keys) :
                   source \in {Found(text) : text \in PluralTexts(2)} \cup {NotFound},
                   keys \in {<<"other">>, <<"one", "other">>, <<"other", "one">>}}
    /\ calls = <<>>
    /\ results = <<>>
    /\ evaluated = {}

\* The caller's tree after node(ctx).
Transform_after(context, self) ==
    IF self.type = "CONCAT" THEN CONCAT_after(self)
    ELSE IF self.type = "REPLACE_IN_TEXT" THEN REPLACE_IN_TEXT_after(context, self)
    ELSE self

Transform_evaluated(context, self) ==
    IF self.type = "REPLACE_IN_TEXT" THEN REPLACE_IN_TEXT_evaluated(context, self)
    ELSE IF self.type = "REPLACE" THEN REPLACE_evaluated(context, self)
    ELSE {}

\* node(ctx): the __call__ of the node's class
Call ==
    /\ Len(results) < MaxCalls
    /\ calls' = Append(calls, "call")
    /\ results' = Append(results, eval_node(ctx, node))
    /\ evaluated' = Transform_evaluated(ctx, node)
    /\ node' = Transform_after(ctx, node)
    /\ UNCHANGED ctx

\* evaluate(ctx, node): traverse hands eval_node rebuilt nodes only
Evaluate ==
    /\ Len(results) < MaxCalls
    /\ calls' = Append(calls, "evaluate")
    /\ results' = Append(results, evaluate(ctx, node))
    /\ evaluated' = Transform_evaluated(ctx, node)
    /\ UNCHANGED <<node, ctx>>

NextEvaluate == Call \/ Evaluate

SpecEvaluate == InitEvaluate /\ [][NextEvaluate]_vars

(* ======================= properties: pattern utilities ================ *)

IsText(element) == element.type = "TextElement"

OnlySpaces(value) == \A i \in 1..Len(value) : value[i] = " "

WellTyped(elements) ==
    \A i \in 1..Len(elements) :
        elements[i].type \in {"Pattern", "TextElement", "Placeable",
                              "StringExpression", "ExternalArgument"}

NormalPattern(pattern) ==
    /\ pattern.type = "Pattern"
    /\ Len(pattern.elements) >= 1
    /\ \A i \in 1..Len(pattern.elements) :
          IsText(pattern.elements[i]) => Len(pattern.elements[i].value) > 0
    /\ \A i \in 1..(Len(pattern.elements) - 1) :
          ~(IsText(pattern.elements[i]) /\ IsText(pattern.elements[i + 1]))
    /\ Len(pattern.elements) = 1 /\ IsText(pattern.elements[1])
          => ~OnlySpaces(pattern.elements[1].value)

\* C1: for every sequence of Patterns, TextElements, Placeables and
\* Expressions, the Pattern pattern_of returns is non-empty, has no two
\* adjacent TextElements, no TextElement with an empty value, and is never a
\* single TextElement that is empty or whitespace-only.
C1_PatternNormalized ==
    node.type = "CONCAT" /\ WellTyped(node.elements)
        => \A i \in 1..Len(results) : NormalPattern(results[i])

\* Two adjacent non-empty texts went in and one merged TextElement came out.
C1_Witness ==
    /\ node.type = "CONCAT" /\ Len(node.elements) = 2 /\ Len(results) >= 1
    /\ IsText(node.elements[1]) /\ node.elements[1].value = <<"a">>
    /\ node.elements[2].type = "Placeable"
    /\ node.elements[2].expression = StringExpression(<<" ">>)
    /\ results[1] = Pattern(<<TextElement(<<"a", " ">>)>>)

\* C2: pattern_of of no elements is one Placeable of StringExpression(''),
\* and pattern_of of a single empty or whitespace-only TextElement is one
\* Placeable of a StringExpression holding that very value.
C2_BlankPreserved ==
    /\ node.type = "CONCAT" /\ node.elements = <<>>
          => \A i \in 1..Len(results) :
                results[i] = Pattern(<<Placeable(StringExpression(<<>>))>>)
    /\ node.type = "CONCAT" /\ Len(node.elements) = 1
        /\ IsText(node.elements[1]) /\ OnlySpaces(node.elements[1].value)
          => \A i \in 1..Len(results) :
                results[i] =
                    Pattern(<<Placeable(StringExpression(node.elements[1].value))>>)

\* A whitespace-only TextElement of at least one character was wrapped.
C2_Witness ==
    /\ node.type = "CONCAT" /\ Len(node.elements) = 1 /\ Len(results) >= 1
    /\ IsText(node.elements[1]) /\ OnlySpaces(node.elements[1].value)
    /\ Len(node.elements[1].value) >= 1
    /\ results[1].elements[1].expression.value = node.elements[1].value

\* C8: normalize_text_content applied to its own output returns that output.
C8_NormalizeIdempotent ==
    node.type = "list"
        => \A i \in 1..(Len(results) - 1) : results[i + 1] = results[i]

\* The second application ran on an output in which two texts were merged.
C8_Witness ==
    /\ node.type = "list" /\ Len(results) >= 2
    /\ Len(node.elements) = 2
    /\ node.elements[1].type = "Placeable" /\ node.elements[2].type = "Placeable"
    /\ Len(results[1]) = 1 /\ IsText(results[1][1])
    /\ Len(results[1][1].value) = 2

(* ========================= properties: REPLACE_IN_TEXT ================ *)

Occurs(text, key) ==
    \E i \in 0..(Len(text) - Len(key)) : SubSeq(text, i + 1, i + Len(key)) = key

FirstAt(text, key) ==
    CHOOSE i \in 0..(Len(text) - Len(key)) :
        /\ SubSeq(text, i + 1, i + Len(key)) = key
        /\ \A j \in 0..(i - 1) : SubSeq(text, j + 1, j + Len(key)) # key

DictKeys(dict) == {dict[i].key : i \in 1..Len(dict)}

\* No occurrence of one key shares a position with an occurrence of another.
NonOverlapping(text, keys) ==
    \A k1, k2 \in keys : k1 # k2 =>
        \A p \in 0..(Len(text) - Len(k1)), q \in 0..(Len(text) - Len(k2)) :
            SubSeq(text, p + 1, p + Len(k1)) = k1 /\ SubSeq(text, q + 1, q + Len(k2)) = k2
                => p + Len(k1) <= q \/ q + Len(k2) <= p

IsReplacement(element) ==
    element.type = "Placeable" /\ element.expression.type = "ExternalArgument"

\* The names of the replacements of a pattern, in order.
ReplacementNames(elements) ==
    LET at == SelectSeq([i \in 1..Len(elements) |-> i],
                        LAMBDA i : IsReplacement(elements[i]))
    IN  [i \in 1..Len(at) |-> elements[at[i]].expression.name]

\* Each TextElement gives its value and each replacement its key.
RECURSIVE TextAndKeys(_)
TextAndKeys(elements) ==
    IF elements = <<>> THEN <<>>
    ELSE LET element == Head(elements)
         IN  (IF IsText(element) THEN element.value
              ELSE IF IsReplacement(element) THEN element.expression.name
              ELSE <<>>) \o TextAndKeys(Tail(elements))

\* As TextAndKeys, a Placeable of a StringExpression giving that string.
RECURSIVE TextualContent(_)
TextualContent(elements) ==
    IF elements = <<>> THEN <<>>
    ELSE LET element == Head(elements)
         IN  (IF IsText(element) THEN element.value
              ELSE IF IsReplacement(element) THEN element.expression.name
              ELSE IF element.type = "Placeable"
                      /\ element.expression.type = "StringExpression"
              THEN element.expression.value
              ELSE <<>>) \o TextualContent(Tail(elements))

\* Every key is a placeholder (not '') that occurs in the text, keys do not
\* overlap, every value is no text.
RoundTripCase ==
    /\ node.type = "REPLACE_IN_TEXT" /\ results # <<>>
    /\ \A i \in 1..Len(node.replacements) :
          /\ node.replacements[i].key # <<>>
          /\ Occurs(node.element.value, node.replacements[i].key)
          /\ node.replacements[i].value.type = "ExternalArgument"
    /\ NonOverlapping(node.element.value, DictKeys(node.replacements))

InOccurrenceOrder(text, names, keys) ==
    /\ {names[i] : i \in 1..Len(names)} = keys
    /\ \A i, j \in 1..Len(names) :
          i < j => FirstAt(text, names[i]) < FirstAt(text, names[j])

\* C3 as stated: for keys that all occur in t and do not overlap, mapped to
\* non-text replacements, the TextElement values and replacement keys of the
\* result concatenate to t, the replacements in order of first occurrence.
C3_RoundTripAsStated ==
    RoundTripCase
        => /\ results[1].type = "Pattern"
           /\ TextAndKeys(results[1].elements) = node.element.value
           /\ InOccurrenceOrder(node.element.value,
                                ReplacementNames(results[1].elements),
                                DictKeys(node.replacements))

\* C3 amended: the same for non-empty keys, a Placeable of a StringExpression
\* contributing its string to the concatenation.
C3_RoundTrip ==
    RoundTripCase
        => /\ results[1].type = "Pattern"
           /\ TextualContent(results[1].elements) = node.element.value
           /\ InOccurrenceOrder(node.element.value,
                                ReplacementNames(results[1].elements),
                                DictKeys(node.replacements))

\* Two keys were replaced whose order in the dict is not their order in the text.
C3_Witness ==
    /\ RoundTripCase
    /\ Len(node.replacements) = 2
    /\ FirstAt(node.element.value, node.replacements[1].key)
         > FirstAt(node.element.value, node.replacements[2].key)
    /\ Len(ReplacementNames(results[1].elements)) = 2

PresentOnly(self) ==
    [self EXCEPT !.replacements =
        SelectSeq(self.replacements,
                  LAMBDA entry : Occurs(self.element.value, entry.key))]

\* C4: the result is that of the mapping restricted to the keys occurring in
\* the text, the replacement of an absent key is never evaluated and never
\* fails the call, and an empty mapping gives pattern_of(TextElement(t)).
C4_AbsentKeysIgnored ==
    node.type = "REPLACE_IN_TEXT" /\ results # <<>>
        => /\ results[1] = REPLACE_IN_TEXT_call(ctx, PresentOnly(node))
           /\ \A key \in evaluated : Occurs(node.element.value, key)
           /\ results[1] = LookupError
                => \E i \in 1..Len(node.replacements) :
                      /\ Occurs(node.element.value, node.replacements[i].key)
                      /\ node.replacements[i].value.type = "COPY"
           /\ node.replacements = <<>>
                => results[1] = pattern_of(<<TextElement(node.element.value)>>)

\* An absent key whose replacement would fail its lookup, next to a key that
\* was replaced.
C4_Witness ==
    /\ node.type = "REPLACE_IN_TEXT" /\ results # <<>>
    /\ ~ctx.sources[<<"file.dtd", "repl">>].found
    /\ Len(node.replacements) = 2
    /\ ~Occurs(node.element.value, node.replacements[1].key)
    /\ node.replacements[1].value.type = "COPY"
    /\ Occurs(node.element.value, node.replacements[2].key)
    /\ results[1].type = "Pattern"
    /\ Len(ReplacementNames(results[1].elements)) = 1

\* Two non-empty keys occur in the text, and the one ordered second is not in
\* the tail left by the first: it occurs only within the first one's match.
OverlapCase ==
    /\ node.type = "REPLACE_IN_TEXT" /\ results # <<>>
    /\ Len(node.replacements) = 2
    /\ \A i \in 1..2 :
          /\ node.replacements[i].key # <<>>
          /\ Occurs(node.element.value, node.replacements[i].key)
          /\ node.replacements[i].value.type = "ExternalArgument"
    /\ \E i, j \in 1..2 :
          /\ i # j
          /\ \/ FirstAt(node.element.value, node.replacements[i].key)
                  < FirstAt(node.element.value, node.replacements[j].key)
             \/ /\ FirstAt(node.element.value, node.replacements[i].key)
                     = FirstAt(node.element.value, node.replacements[j].key)
                /\ i < j
          /\ ~Occurs(SubSeq(node.element.value,
                            FirstAt(node.element.value, node.replacements[i].key)
                                + Len(node.replacements[i].key) + 1,
                            Len(node.element.value)),
                     node.replacements[j].key)

\* C10: when a key occurs only within the match of an earlier-ordered key,
\* evaluation still returns a pattern: one replacement, for the earlier key,
\* and the text before and after it.
C10_OverlapGivesPattern ==
    OverlapCase
        => /\ results[1].type = "Pattern"
           /\ Len(ReplacementNames(results[1].elements)) = 1
           /\ TextualContent(results[1].elements) = node.element.value

(* ============================ properties: PLURALS ===================== *)

\* The place of a category in the CLDR order zero, one, two, few, many, other.
Rank(name) ==
    CASE name = "zero" -> 1 [] name = "one" -> 2 [] name = "two" -> 3
      [] name = "few" -> 4 [] name = "many" -> 5 [] name = "other" -> 6

Categories == {ctx.plural_categories[i] : i \in 1..Len(ctx.plural_categories)}

LastCategory == CHOOSE name \in Categories : \A other \in Categories : Rank(other) <= Rank(name)

LegacyText == ctx.sources[<<"file.dtd", "legacy">>].text

Semicolons(text) == {i \in 1..Len(text) : text[i] = ";"}

\* The i-th of the parts of text between its semicolons.
Part(text, i) ==
    LET ends == {0} \cup Semicolons(text) \cup {Len(text) + 1}
        from == CHOOSE e \in ends : Cardinality({d \in ends : d < e}) = i - 1
        to == CHOOSE e \in ends : Cardinality({d \in ends : d < e}) = i
    IN  SubSeq(text, from + 1, to - 1)

PartCount(text) == Cardinality(Semicolons(text)) + 1

\* What the foreach builder makes of a variant, evaluated.
Built(text) == evaluate_foreach(ctx, node, TextElement(text))

IsSelect(result) ==
    /\ result.type = "Pattern" /\ Len(result.elements) = 1
    /\ result.elements[1].type = "Placeable"
    /\ result.elements[1].expression.type = "SelectExpression"

Variants(result) == result.elements[1].expression.variants

PluralsCalled ==
    /\ node.type = "PLURALS" /\ results # <<>>
    /\ ctx.sources[<<"file.dtd", "legacy">>].found

NoSelect(result) ==
    /\ result.type = "Pattern"
    /\ \A i \in 1..Len(result.elements) :
          result.elements[i].type = "Placeable"
              => result.elements[i].expression.type # "SelectExpression"

\* C5: a select expression built by PLURALS has exactly one default variant,
\* keyed by the category of plural_categories that is last in CLDR order.
C5_OneDefault ==
    PluralsCalled /\ IsSelect(results[1])
        => LET variants == Variants(results[1])
               defaults == {i \in 1..Len(variants) : variants[i].default}
           IN  /\ Cardinality(defaults) = 1
               /\ \A i \in defaults : variants[i].key = VariantName(LastCategory)

\* The default category was paired with no legacy variant and was appended.
C5_Witness ==
    /\ PluralsCalled /\ IsSelect(results[1])
    /\ Len(ctx.plural_categories) = 3 /\ PartCount(LegacyText) = 2
    /\ ctx.plural_categories[3] = LastCategory
    /\ Len(Variants(results[1])) = 3
    /\ Variants(results[1])[3].default

\* C6: with one plural category or one legacy variant the result is the
\* foreach builder's for the first variant, without a select expression;
\* otherwise it is a Pattern of one Placeable of a SelectExpression.
C6_SingleVariant ==
    PluralsCalled
        => IF Len(ctx.plural_categories) = 1 \/ PartCount(LegacyText) = 1
           THEN results[1] = Built(Part(LegacyText, 1)) /\ NoSelect(results[1])
           ELSE IsSelect(results[1])

\* Several categories and a legacy text without a semicolon.
C6_Witness ==
    /\ PluralsCalled
    /\ Len(ctx.plural_categories) >= 2 /\ PartCount(LegacyText) = 1
    /\ Len(LegacyText) >= 1
    /\ NoSelect(results[1])

PairCount ==
    IF Len(ctx.plural_categories) <= PartCount(LegacyText)
    THEN Len(ctx.plural_categories) ELSE PartCount(LegacyText)

\* The i-th category of a set of categories in CLDR order.
InRankOrder(names, i) ==
    CHOOSE name \in names : Cardinality({other \in names : Rank(other) < Rank(name)}) = i - 1

\* The variants a list of (category, text) pairs stands for, the default one
\* appended with the last text when the last category is not the default.
ExpectedVariants(pairs) ==
    LET all == IF pairs[Len(pairs)][1] # LastCategory
               THEN Append(pairs, <<LastCategory, pairs[Len(pairs)][2]>>)
               ELSE pairs
    IN  [i \in 1..Len(all) |->
            Variant(VariantName(all[i][1]), Built(all[i][2]), all[i][1] = LastCategory)]

\* C7 as stated: the i-th category in CLDR order is paired with the i-th
\* legacy variant.
C7_PairedInCanonicalOrder ==
    PluralsCalled /\ IsSelect(results[1])
        => Variants(results[1]) =
              ExpectedVariants([i \in 1..PairCount |->
                                   <<InRankOrder(Categories, i), Part(LegacyText, i)>>])

\* C7 amended: the i-th category as plural_categories lists them is paired
\* with the i-th legacy variant, and the pairs are put in CLDR order.
C7_PairedInContextOrder ==
    PluralsCalled /\ IsSelect(results[1])
        => LET paired == {ctx.plural_categories[i] : i \in 1..PairCount}
               place(name) == CHOOSE i \in 1..PairCount : ctx.plural_categories[i] = name
           IN  Variants(results[1]) =
                  ExpectedVariants([i \in 1..PairCount |->
                                       <<InRankOrder(paired, i),
                                         Part(LegacyText, place(InRankOrder(paired, i)))>>])

\* plural_categories not in CLDR order, fewer variants than categories, the
\* default appended.
C7_Witness ==
    /\ PluralsCalled /\ IsSelect(results[1])
    /\ Len(ctx.plural_categories) = 3 /\ PartCount(LegacyText) = 2
    /\ Rank(ctx.plural_categories[1]) > Rank(ctx.plural_categories[2])
    /\ Part(LegacyText, 1) # Part(LegacyText, 2)
    /\ Len(Variants(results[1])) = 3

(* ============================ properties: evaluate ==================== *)

\* C9: no call and no evaluation changes a node of the caller's tree, and
\* the same operation applied again to the same tree and context returns a
\* structurally equal result.
C9_TreeUntouched ==
    [][/\ node' = node
       /\ \A i, j \in 1..Len(results') :
             calls'[i] = calls'[j] => results'[i] = results'[j]]_vars

\* A CONCAT of two adjacent texts of the caller was called twice and merged
\* them both times.
C9_Witness ==
    /\ calls = <<"call", "call">>
    /\ node.type = "CONCAT" /\ Len(node.elements) = 2
    /\ IsText(node.elements[1]) /\ node.elements[1].value = <<"a">>
    /\ IsText(node.elements[2]) /\ node.elements[2].value = <<" ">>
    /\ results[2] = Pattern(<<TextElement(<<"a", " ">>)>>)

====
